---- MODULE Spec2Model ----
(***************************************************************************)
(* Model of src/sandboxer/landlock_sandboxer.c: the LD_PRELOAD constructor *)
(* apply_sandbox, which builds a Landlock ruleset that allows execution of *)
(* every regular executable file found through PATH except the paths of    *)
(* DENIED_SHELLS, sets NO_NEW_PRIVS and commits the ruleset, or _exit(126).*)
(*                                                                         *)
(* Strings are TLA+ strings; PATH is a sequence of chunks, each either the *)
(* delimiter ":" or a run of characters without ":".  A path is walked by  *)
(* the kernel as a directory part and a last component.                    *)
(***************************************************************************)
EXTENDS Integers, Sequences, FiniteSets, TLC

(* -------------------------- program constants -------------------------- *)

PATH_MAX == 4096

EXIT_FAILSAFE == 126

DENIED_SHELLS ==
    << "/bin/bash",    "/usr/bin/bash",
       "/bin/sh",      "/usr/bin/sh",
       "/bin/dash",    "/usr/bin/dash",
       "/bin/zsh",     "/usr/bin/zsh",
       "/bin/fish",    "/usr/bin/fish",
       "/bin/ksh",     "/usr/bin/ksh",
       "/bin/csh",     "/usr/bin/csh",
       "/bin/tcsh",    "/usr/bin/tcsh",
       "/bin/ash",     "/usr/bin/ash",
       "/bin/busybox", "/usr/bin/busybox",
       "/bin/mksh",    "/usr/bin/mksh",
       "/bin/rbash",   "/usr/bin/rbash",
       "/bin/elvish",  "/usr/bin/elvish",
       "/bin/nu",      "/usr/bin/nu",
       "/bin/pwsh",    "/usr/bin/pwsh",
       "/bin/xonsh",   "/usr/bin/xonsh" >>

DenialSet == { DENIED_SHELLS[i] : i \in DOMAIN DENIED_SHELLS }

(* ------------------------------ is_denied ------------------------------ *)

strcmp(a, b) == IF a = b THEN 0 ELSE 1

\* Variant: the two comparisons joined by && instead of ||.
RECURSIVE is_denied_from_both(_, _, _)
is_denied_from_both(path, resolved, s) ==
    IF s > Len(DENIED_SHELLS) THEN 0
    ELSE IF strcmp(path, DENIED_SHELLS[s]) = 0 /\ strcmp(resolved, DENIED_SHELLS[s]) = 0
         THEN 1
         ELSE is_denied_from_both(path, resolved, s + 1)

RECURSIVE is_denied_from(_, _, _)
is_denied_from(path, resolved, s) ==
    IF s > Len(DENIED_SHELLS) THEN 0
    ELSE IF strcmp(path, DENIED_SHELLS[s]) = 0 \/ strcmp(resolved, DENIED_SHELLS[s]) = 0
         THEN 1
         ELSE is_denied_from(path, resolved, s + 1)

\* Variant: only the literal path is compared.
is_denied_literal(path, resolved) == is_denied_from(path, path, 1)

is_denied(path, resolved) == is_denied_from(path, resolved, 1)

(* ------------------------------- bounds -------------------------------- *)

\* Most directories a generated PATH value names.
MaxDirs == 2

(* -------------------------------- state -------------------------------- *)

VARIABLES
    pc,            \* position in apply_sandbox
    path_env,      \* the environment's PATH
    no_new_privs,  \* the process's NO_NEW_PRIVS flag
    ruleset_fd,    \* "unopened", "open" or "closed"
    ruleset,       \* the inodes the kernel's ruleset allows to execute
    saveptr,       \* what strtok_r has left of path_copy
    dir,           \* current PATH token
    d_open,        \* DIR *d is open
    d_rest,        \* the entries readdir has not yet returned
    ent,           \* ent->d_name
    fullpath,
    st,            \* struct stat of fullpath
    resolved,
    fd,            \* add_exec_rule's descriptor: "none" or the inode it names
    enforcement,   \* "unrestricted" or "restricted"
    allow_list,    \* the committed ruleset
    exit_status,   \* -1 while the process lives
    stderr,        \* the diagnostics written
    last_exec,     \* the last execve the host attempted and its result
    calls,         \* history: the system and library calls made so far
    failures,      \* history: the calls that failed
    tried,         \* history: the tokens given to opendir
    examined,      \* history: the entries readdir returned
    added,         \* history: the candidates whose rule was added
    call,          \* is_denied called on its own: arguments and result
    retargeted     \* another process has replaced /tmp/bin/tool by a link to bash

(* ----------------------------- file system ----------------------------- *)

RECURSIVE Rep(_, _)
Rep(s, n) ==
    IF n = 0 THEN ""
    ELSE IF n % 2 = 0 THEN Rep(s \o s, n \div 2)
         ELSE s \o Rep(s \o s, n \div 2)

\* An existing directory whose name is 4088 characters long: shorter than
\* PATH_MAX, so that it can be opened, and long enough for "%s/%s" to overflow.
LongDir == Rep("/ddddddd", (PATH_MAX \div 8) - 1)

NoDir == "ENOENT"

\* The directory a directory path names (symlinked directories and a trailing
\* slash resolved), NoDir when there is none.
DirCanon(dname) ==
    CASE dname = "/usr/bin"  -> "/usr/bin"
      [] dname = "/bin"      -> "/usr/bin"
      [] dname = "/tmp/bin"  -> "/tmp/bin"
      [] dname = "/tmp/bin/" -> "/tmp/bin"
      [] dname = "/tmp/hl"   -> "/tmp/hl"
      [] dname = "/opt/ksh"  -> "/opt/ksh"
      [] dname = LongDir     -> LongDir
      [] dname = "/l"        -> LongDir
      [] OTHER               -> NoDir

\* The names readdir yields for a directory.
Dirents(cdir) ==
    CASE cdir = "/usr/bin" -> {"bash", "sh", "ksh", "env"}
      [] cdir = "/tmp/bin" -> {"tool", "myshell", "data", "broken"}
      [] cdir = "/tmp/hl"  -> {".", "mysh", "chain"}
      [] cdir = "/opt/ksh" -> {"ksh93"}
      [] cdir = LongDir    -> {"ok", "longname"}
      [] OTHER             -> {}

File(i)       == [kind |-> "file", ino |-> i, tdir |-> "", tname |-> ""]
Symlink(t, n) == [kind |-> "symlink", ino |-> "", tdir |-> t, tname |-> n]
Directory     == [kind |-> "dir", ino |-> "", tdir |-> "", tname |-> ""]
NoEntry       == [kind |-> "none", ino |-> "", tdir |-> "", tname |-> ""]

\* What a name of a directory is: a (hard) link to an inode, a symbolic link
\* to a path, or a directory.
Node(cdir, name) ==
    CASE cdir = "/usr/bin" /\ name = "bash"    -> File("ino_bash")
      [] cdir = "/usr/bin" /\ name = "sh"      -> Symlink("/bin", "bash")
      [] cdir = "/usr/bin" /\ name = "ksh"     -> Symlink("/opt/ksh", "ksh93")
      [] cdir = "/usr/bin" /\ name = "env"     -> File("ino_env")
      [] cdir = "/tmp/bin" /\ name = "tool"    ->
            IF retargeted THEN Symlink("/bin", "bash") ELSE File("ino_tool")
      [] cdir = "/tmp/bin" /\ name = "myshell" -> Symlink("/bin", "bash")
      [] cdir = "/tmp/bin" /\ name = "data"    -> File("ino_data")
      [] cdir = "/tmp/bin" /\ name = "broken"  -> Symlink("/nonexistent", "gone")
      [] cdir = "/tmp/hl"  /\ name = "."       -> Directory
      [] cdir = "/tmp/hl"  /\ name = "mysh"    -> File("ino_bash")
      [] cdir = "/tmp/hl"  /\ name = "chain"   -> Symlink("/tmp/bin", "myshell")
      [] cdir = "/opt/ksh" /\ name = "ksh93"   -> File("ino_ksh93")
      [] cdir = LongDir    /\ name = "ok"      -> File("ino_deep")
      [] cdir = LongDir    /\ name = "longname" -> File("ino_deep")
      [] OTHER -> NoEntry

S_IXANY == {"S_IXUSR", "S_IXGRP", "S_IXOTH"}

\* What stat reports of an inode: st_ino, and of st_mode the regular-file flag
\* and the execute bits set.
Inode(i) ==
    CASE i = "ino_bash"  -> [ino |-> i, reg |-> TRUE, xbits |-> S_IXANY]
      [] i = "ino_env"   -> [ino |-> i, reg |-> TRUE, xbits |-> S_IXANY]
      [] i = "ino_ksh93" -> [ino |-> i, reg |-> TRUE, xbits |-> {"S_IXUSR", "S_IXGRP"}]
      [] i = "ino_tool"  -> [ino |-> i, reg |-> TRUE, xbits |-> {"S_IXOTH"}]
      [] i = "ino_deep"  -> [ino |-> i, reg |-> TRUE, xbits |-> {"S_IXUSR"}]
      [] i = "ino_data"  -> [ino |-> i, reg |-> TRUE, xbits |-> {}]
      [] OTHER           -> [ino |-> i, reg |-> FALSE, xbits |-> {}]

\* The kernel's walk of dname/name, following symbolic links: the canonical
\* path and the inode reached, or an error.
RECURSIVE PathWalk(_, _)
PathWalk(dname, name) ==
    LET c == DirCanon(dname)
        n == Node(c, name)
    IN  IF c = NoDir \/ n.kind = "none"
        THEN [ok |-> FALSE, path |-> "", ino |-> ""]
        ELSE IF n.kind = "symlink" THEN PathWalk(n.tdir, n.tname)
        ELSE IF n.kind = "dir"
             THEN [ok |-> TRUE, path |-> c, ino |-> "ino_dir"]
             ELSE [ok |-> TRUE, path |-> c \o "/" \o name, ino |-> n.ino]

(* --------------------------- PATH and strtok_r ------------------------- *)

Delim == ":"

RECURSIVE SkipDelims(_)
SkipDelims(s) ==
    IF s # <<>> /\ Head(s) = Delim THEN SkipDelims(Tail(s)) ELSE s

RECURSIVE TokenText(_)
TokenText(s) ==
    IF s = <<>> \/ Head(s) = Delim THEN "" ELSE Head(s) \o TokenText(Tail(s))

RECURSIVE TokenEnd(_)
TokenEnd(s) ==
    IF s = <<>> THEN <<>>
    ELSE IF Head(s) = Delim THEN Tail(s)
    ELSE TokenEnd(Tail(s))

\* strtok_r(str, ":", &saveptr): the next token and the new saveptr, or NULL.
strtok_r(s) ==
    LET t == SkipDelims(s)
    IN  IF t = <<>> THEN [null |-> TRUE, tok |-> "", rest |-> <<>>]
        ELSE [null |-> FALSE, tok |-> TokenText(t), rest |-> TokenEnd(t)]

RECURSIVE Tokens(_)
Tokens(s) ==
    LET r == strtok_r(s)
    IN  IF r.null THEN <<>> ELSE <<r.tok>> \o Tokens(r.rest)

DirChoices == {"/bin", "/tmp/bin", "/tmp/hl", "/opt/ksh", "/nonexistent"}

RECURSIVE Join(_)
Join(ds) ==
    IF Len(ds) = 0 THEN <<>>
    ELSE IF Len(ds) = 1 THEN <<ds[1]>>
    ELSE <<ds[1], Delim>> \o Join(Tail(ds))

Unset == [null |-> TRUE, s |-> <<>>]
Env(s) == [null |-> FALSE, s |-> s]

\* The values of PATH a run may start with.
PathValues ==
    {Unset, Env(<<>>), Env(<<Delim>>),
     Env(<<Delim, "/tmp/bin/", Delim, Delim, "/usr/bin", Delim>>),
     Env(<<LongDir, Delim, "/opt/ksh">>), Env(<<"/l">>),
     Env(<<"/tmp/bin", Delim, "/tmp/bin/">>),
     Env(<<"/nonexistent", Delim, LongDir, Delim, "/tmp/bin">>)}
    \cup { Env(Join(ds)) : ds \in UNION { [1..n -> DirChoices] : n \in 1..MaxDirs } }

vars == << pc, path_env, no_new_privs, ruleset_fd, ruleset, saveptr, dir, d_open,
           d_rest, ent, fullpath, st, resolved, fd, enforcement, allow_list,
           exit_status, stderr, last_exec, calls, failures, tried, examined,
           added, call, retargeted >>

locals  == << ent, fullpath, st, resolved >>
kernel  == << no_new_privs, enforcement, allow_list >>
host    == << last_exec, call >>
history == << tried, examined, added >>

NoStat == [ino |-> "", reg |-> FALSE, xbits |-> {}]
NoCall == [path |-> "", resolved |-> "", ret |-> -1]
NoExec == [path |-> "", result |-> "none"]

\* The values of everything apply_sandbox has not yet touched.
Fresh ==
    /\ ruleset_fd = "unopened"
    /\ ruleset = {}
    /\ saveptr = <<>>
    /\ dir = ""
    /\ d_open = FALSE
    /\ d_rest = {}
    /\ ent = ""
    /\ fullpath = ""
    /\ st = NoStat
    /\ resolved = ""
    /\ fd = "none"
    /\ enforcement = "unrestricted"
    /\ allow_list = {}
    /\ exit_status = -1
    /\ stderr = <<>>
    /\ last_exec = NoExec
    /\ calls = {}
    /\ failures = {}
    /\ tried = {}
    /\ examined = {}
    /\ added = {}
    /\ retargeted = FALSE

Init ==
    /\ pc = "create_ruleset"
    /\ path_env \in PathValues
    /\ no_new_privs \in BOOLEAN
    /\ call = NoCall
    /\ Fresh

(* ------------------------------- actions ------------------------------- *)

\* Variant: only the NULL test of `!path_env || !*path_env`.
path_is_null(env) == env.null

\* !path_env || !*path_env
path_is_empty(env) == env.null \/ env.s = <<>>

\* Variant: the status depends on the failure.
Abort_other_status(diagnostic, what) ==
    /\ stderr' = IF diagnostic = "" THEN stderr ELSE Append(stderr, diagnostic)
    /\ failures' = failures \cup {what}
    /\ exit_status' = IF what = "prctl" THEN 1 ELSE EXIT_FAILSAFE
    /\ pc' = "exited"

\* perror / fprintf(stderr, ...) followed by _exit(126); the descriptor of
\* the ruleset is closed first where the code does so.
Abort(diagnostic, what) ==
    /\ stderr' = IF diagnostic = "" THEN stderr ELSE Append(stderr, diagnostic)
    /\ failures' = failures \cup {what}
    /\ exit_status' = EXIT_FAILSAFE
    /\ pc' = "exited"

\* The failures recorded after call `what` failed: a failure that the file
\* system does not explain (fs_ok) is transient.
Failed(what, fs_ok) ==
    failures \cup {what} \cup (IF fs_ok THEN {"transient"} ELSE {})

\* `continue` of the readdir loop: the locals of the loop body go out of scope.
NextEntry ==
    /\ pc' = "readdir"
    /\ ent' = ""
    /\ fullpath' = ""
    /\ st' = NoStat
    /\ resolved' = ""

\* Variant: the failure is reported but _exit is missing.
create_ruleset_no_exit ==
    /\ pc = "create_ruleset"
    /\ calls' = calls \cup {"landlock_create_ruleset"}
    /\ \E ok \in BOOLEAN :
        IF ok
        THEN /\ ruleset_fd' = "open"
             /\ ruleset' = {}
             /\ pc' = "getenv"
             /\ UNCHANGED << stderr, failures, exit_status >>
        ELSE /\ stderr' = Append(stderr, "landlock_sandboxer: create_ruleset")
             /\ failures' = failures \cup {"landlock_create_ruleset"}
             /\ pc' = "getenv"
             /\ UNCHANGED << ruleset_fd, ruleset, exit_status >>
    /\ UNCHANGED << path_env, saveptr, dir, d_open, d_rest, fd >>
    /\ UNCHANGED << locals, kernel, host, history >>
    /\ UNCHANGED retargeted

create_ruleset ==
    /\ pc = "create_ruleset"
    /\ calls' = calls \cup {"landlock_create_ruleset"}
    /\ \E ok \in BOOLEAN :
        IF ok
        THEN /\ ruleset_fd' = "open"
             /\ ruleset' = {}
             /\ pc' = "getenv"
             /\ UNCHANGED << stderr, failures, exit_status >>
        ELSE /\ Abort("landlock_sandboxer: create_ruleset", "landlock_create_ruleset")
             /\ UNCHANGED << ruleset_fd, ruleset >>
    /\ UNCHANGED << path_env, saveptr, dir, d_open, d_rest, fd >>
    /\ UNCHANGED << locals, kernel, host, history >>
    /\ UNCHANGED retargeted

\* Variant: an empty PATH is taken as nothing to enumerate and the run goes on to the privilege lock.
getenv_PATH_skip ==
    /\ pc = "getenv"
    /\ calls' = calls \cup {"getenv"}
    /\ IF path_is_empty(path_env)
       THEN /\ pc' = "prctl"
            /\ UNCHANGED << ruleset_fd, stderr, failures, exit_status >>
       ELSE /\ pc' = "strdup"
            /\ UNCHANGED << ruleset_fd, stderr, failures, exit_status >>
    /\ UNCHANGED << path_env, ruleset, saveptr, dir, d_open, d_rest, fd >>
    /\ UNCHANGED << locals, kernel, host, history >>
    /\ UNCHANGED retargeted

getenv_PATH ==
    /\ pc = "getenv"
    /\ calls' = calls \cup {"getenv"}
    /\ IF path_is_empty(path_env)
       THEN /\ ruleset_fd' = "closed"
            /\ Abort("landlock_sandboxer: PATH is empty", "PATH")
       ELSE /\ pc' = "strdup"
            /\ UNCHANGED << ruleset_fd, stderr, failures, exit_status >>
    /\ UNCHANGED << path_env, ruleset, saveptr, dir, d_open, d_rest, fd >>
    /\ UNCHANGED << locals, kernel, host, history >>
    /\ UNCHANGED retargeted

\* Variant: the result of strdup is not tested.
strdup_path_unchecked ==
    /\ pc = "strdup"
    /\ calls' = calls \cup {"strdup"}
    /\ \E ok \in {TRUE} :
        IF ok
        THEN /\ saveptr' = path_env.s
             /\ pc' = "strtok_r"
             /\ UNCHANGED << ruleset_fd, stderr, failures, exit_status >>
        ELSE /\ ruleset_fd' = "closed"
             /\ Abort("", "strdup")
             /\ UNCHANGED saveptr
    /\ UNCHANGED << path_env, ruleset, dir, d_open, d_rest, fd >>
    /\ UNCHANGED << locals, kernel, host, history >>
    /\ UNCHANGED retargeted

strdup_path ==
    /\ pc = "strdup"
    /\ calls' = calls \cup {"strdup"}
    /\ \E ok \in BOOLEAN :
        IF ok
        THEN /\ saveptr' = path_env.s
             /\ pc' = "strtok_r"
             /\ UNCHANGED << ruleset_fd, stderr, failures, exit_status >>
        ELSE /\ ruleset_fd' = "closed"
             /\ Abort("", "strdup")
             /\ UNCHANGED saveptr
    /\ UNCHANGED << path_env, ruleset, dir, d_open, d_rest, fd >>
    /\ UNCHANGED << locals, kernel, host, history >>
    /\ UNCHANGED retargeted

\* Variant: every call restarts the scan of the PATH copy from where the previous one started.
strtok_r_next_restart ==
    /\ pc = "strtok_r"
    /\ LET r == strtok_r(saveptr)
       IN  /\ saveptr' = saveptr
           /\ dir' = r.tok
           /\ pc' = IF r.null THEN "prctl" ELSE "opendir"
    /\ UNCHANGED << path_env, ruleset_fd, ruleset, d_open, d_rest, fd, exit_status,
                    stderr, calls, failures >>
    /\ UNCHANGED << locals, kernel, host, history >>
    /\ UNCHANGED retargeted

strtok_r_next ==
    /\ pc = "strtok_r"
    /\ LET r == strtok_r(saveptr)
       IN  /\ saveptr' = r.rest
           /\ dir' = r.tok
           /\ pc' = IF r.null THEN "prctl" ELSE "opendir"
    /\ UNCHANGED << path_env, ruleset_fd, ruleset, d_open, d_rest, fd, exit_status,
                    stderr, calls, failures >>
    /\ UNCHANGED << locals, kernel, host, history >>
    /\ UNCHANGED retargeted

\* Variant: a directory that cannot be opened ends the loop (break for continue).
opendir_dir_break ==
    /\ pc = "opendir"
    /\ calls' = calls \cup {"opendir"}
    /\ tried' = tried \cup {dir}
    /\ \E ok \in BOOLEAN :
        IF ok /\ DirCanon(dir) # NoDir
        THEN /\ d_open' = TRUE
             /\ d_rest' = Dirents(DirCanon(dir))
             /\ pc' = "readdir"
             /\ UNCHANGED failures
        ELSE /\ failures' = Failed("opendir", DirCanon(dir) # NoDir)
             /\ pc' = "prctl"
             /\ UNCHANGED << d_open, d_rest >>
    /\ UNCHANGED << path_env, ruleset_fd, ruleset, saveptr, dir, fd, exit_status,
                    stderr, examined, added >>
    /\ UNCHANGED << locals, kernel, host >>
    /\ UNCHANGED retargeted

opendir_dir ==
    /\ pc = "opendir"
    /\ calls' = calls \cup {"opendir"}
    /\ tried' = tried \cup {dir}
    /\ \E ok \in BOOLEAN :
        IF ok /\ DirCanon(dir) # NoDir
        THEN /\ d_open' = TRUE
             /\ d_rest' = Dirents(DirCanon(dir))
             /\ pc' = "readdir"
             /\ UNCHANGED failures
        ELSE /\ failures' = Failed("opendir", DirCanon(dir) # NoDir)
             /\ pc' = "strtok_r"
             /\ UNCHANGED << d_open, d_rest >>
    /\ UNCHANGED << path_env, ruleset_fd, ruleset, saveptr, dir, fd, exit_status,
                    stderr, examined, added >>
    /\ UNCHANGED << locals, kernel, host >>
    /\ UNCHANGED retargeted

\* Variant: the directory stream is left open at the end of the directory.
readdir_next_no_closedir ==
    /\ pc = "readdir"
    /\ calls' = calls \cup {"readdir"}
    /\ IF d_rest = {}
       THEN /\ d_open' = d_open
            /\ pc' = "strtok_r"
            /\ UNCHANGED << d_rest, locals, examined, failures >>
       ELSE \E name \in d_rest :
            /\ d_rest' = d_rest \ {name}
            /\ examined' = examined \cup {[dir |-> dir, name |-> name]}
            /\ LET n == Len(dir) + 1 + Len(name)
               IN  IF n >= PATH_MAX
                   THEN /\ NextEntry
                        /\ failures' = failures \cup {"snprintf"}
                   ELSE /\ ent' = name
                        /\ fullpath' = dir \o "/" \o name
                        /\ pc' = "stat"
                        /\ UNCHANGED << st, resolved, failures >>
            /\ UNCHANGED d_open
    /\ UNCHANGED << path_env, ruleset_fd, ruleset, saveptr, dir, fd, exit_status,
                    stderr, tried, added >>
    /\ UNCHANGED << kernel, host >>
    /\ UNCHANGED retargeted

readdir_next ==
    /\ pc = "readdir"
    /\ calls' = calls \cup {"readdir"}
    /\ IF d_rest = {}
       THEN /\ d_open' = FALSE
            /\ pc' = "strtok_r"
            /\ UNCHANGED << d_rest, locals, examined, failures >>
       ELSE \E name \in d_rest :
            /\ d_rest' = d_rest \ {name}
            /\ examined' = examined \cup {[dir |-> dir, name |-> name]}
            /\ LET n == Len(dir) + 1 + Len(name)
               IN  IF n >= PATH_MAX
                   THEN /\ NextEntry
                        /\ failures' = failures \cup {"snprintf"}
                   ELSE /\ ent' = name
                        /\ fullpath' = dir \o "/" \o name
                        /\ pc' = "stat"
                        /\ UNCHANGED << st, resolved, failures >>
            /\ UNCHANGED d_open
    /\ UNCHANGED << path_env, ruleset_fd, ruleset, saveptr, dir, fd, exit_status,
                    stderr, tried, added >>
    /\ UNCHANGED << kernel, host >>
    /\ UNCHANGED retargeted

\* Variant: an entry that is not a regular executable file ends the directory (break for continue).
stat_fullpath_break ==
    /\ pc = "stat"
    /\ calls' = calls \cup {"stat"}
    /\ LET w == PathWalk(dir, ent)
       IN  \E ok \in BOOLEAN :
           IF ~(ok /\ w.ok)
           THEN /\ NextEntry
                /\ failures' = Failed("stat", w.ok)
                /\ UNCHANGED d_rest
           ELSE IF ~Inode(w.ino).reg \/ Inode(w.ino).xbits \cap S_IXANY = {}
                THEN /\ NextEntry
                     /\ d_rest' = {}
                     /\ UNCHANGED failures
                ELSE /\ st' = Inode(w.ino)
                     /\ pc' = "realpath"
                     /\ UNCHANGED << ent, fullpath, resolved, failures, d_rest >>
    /\ UNCHANGED << path_env, ruleset_fd, ruleset, saveptr, dir, d_open, fd,
                    exit_status, stderr >>
    /\ UNCHANGED << kernel, host, history >>
    /\ UNCHANGED retargeted

stat_fullpath ==
    /\ pc = "stat"
    /\ calls' = calls \cup {"stat"}
    /\ LET w == PathWalk(dir, ent)
       IN  \E ok \in BOOLEAN :
           IF ~(ok /\ w.ok)
           THEN /\ NextEntry
                /\ failures' = Failed("stat", w.ok)
           ELSE IF ~Inode(w.ino).reg \/ Inode(w.ino).xbits \cap S_IXANY = {}
                THEN /\ NextEntry
                     /\ UNCHANGED failures
                ELSE /\ st' = Inode(w.ino)
                     /\ pc' = "realpath"
                     /\ UNCHANGED << ent, fullpath, resolved, failures >>
    /\ UNCHANGED << path_env, ruleset_fd, ruleset, saveptr, dir, d_open, d_rest, fd,
                    exit_status, stderr >>
    /\ UNCHANGED << kernel, host, history >>
    /\ UNCHANGED retargeted

realpath_fullpath ==
    /\ pc = "realpath"
    /\ calls' = calls \cup {"realpath"}
    /\ LET w == PathWalk(dir, ent)
       IN  \E ok \in BOOLEAN :
           IF ok /\ w.ok /\ Len(w.path) < PATH_MAX
           THEN /\ resolved' = w.path
                /\ pc' = "is_denied"
                /\ UNCHANGED << ent, fullpath, st, failures >>
           ELSE /\ NextEntry
                /\ failures' = Failed("realpath", w.ok /\ Len(w.path) < PATH_MAX)
    /\ UNCHANGED << path_env, ruleset_fd, ruleset, saveptr, dir, d_open, d_rest, fd,
                    exit_status, stderr >>
    /\ UNCHANGED << kernel, host, history >>
    /\ UNCHANGED retargeted

is_denied_check ==
    /\ pc = "is_denied"
    /\ IF is_denied(fullpath, resolved) # 0
       THEN NextEntry
       ELSE /\ pc' = "open"
            /\ UNCHANGED locals
    /\ UNCHANGED << path_env, ruleset_fd, ruleset, saveptr, dir, d_open, d_rest, fd,
                    exit_status, stderr, calls, failures >>
    /\ UNCHANGED << kernel, host, history >>
    /\ UNCHANGED retargeted

\* add_exec_rule: open(path, O_PATH | O_CLOEXEC)
add_exec_rule_open ==
    /\ pc = "open"
    /\ calls' = calls \cup {"open"}
    /\ LET w == PathWalk(dir, ent)
       IN  \E ok \in BOOLEAN :
           IF ok /\ w.ok
           THEN /\ fd' = w.ino
                /\ pc' = "add_rule"
                /\ UNCHANGED << locals, failures >>
           ELSE /\ NextEntry
                /\ failures' = Failed("open", w.ok)
                /\ UNCHANGED fd
    /\ UNCHANGED << path_env, ruleset_fd, ruleset, saveptr, dir, d_open, d_rest,
                    exit_status, stderr >>
    /\ UNCHANGED << kernel, host, history >>
    /\ UNCHANGED retargeted

\* Variant: a rule that cannot be added aborts the run.
add_exec_rule_syscall_fatal ==
    /\ pc = "add_rule"
    /\ calls' = calls \cup {"landlock_add_rule"}
    /\ \E ok \in BOOLEAN :
        IF ok
        THEN /\ ruleset' = ruleset \cup {fd}
             /\ added' = added \cup {[dir |-> dir, name |-> ent, path |-> fullpath,
                                      resolved |-> resolved, st |-> st, ino |-> fd]}
             /\ UNCHANGED failures
             /\ pc' = "close"
             /\ UNCHANGED exit_status
        ELSE /\ failures' = Failed("landlock_add_rule", TRUE)
             /\ exit_status' = EXIT_FAILSAFE
             /\ pc' = "exited"
             /\ UNCHANGED << ruleset, added >>
    /\ UNCHANGED << path_env, ruleset_fd, saveptr, dir, d_open, d_rest, fd,
                    stderr, tried, examined >>
    /\ UNCHANGED << locals, kernel, host >>
    /\ UNCHANGED retargeted

\* Variant: adding a rule the ruleset already holds removes it.
add_exec_rule_syscall_toggle ==
    /\ pc = "add_rule"
    /\ calls' = calls \cup {"landlock_add_rule"}
    /\ \E ok \in BOOLEAN :
        IF ok
        THEN /\ ruleset' = IF fd \in ruleset THEN ruleset \ {fd} ELSE ruleset \cup {fd}
             /\ added' = added \cup {[dir |-> dir, name |-> ent, path |-> fullpath,
                                      resolved |-> resolved, st |-> st, ino |-> fd]}
             /\ UNCHANGED failures
        ELSE /\ failures' = Failed("landlock_add_rule", TRUE)
             /\ UNCHANGED << ruleset, added >>
    /\ pc' = "close"
    /\ UNCHANGED << path_env, ruleset_fd, saveptr, dir, d_open, d_rest, fd,
                    exit_status, stderr, tried, examined >>
    /\ UNCHANGED << locals, kernel, host >>
    /\ UNCHANGED retargeted

\* Variant: the new rule replaces the rules the ruleset holds.
add_exec_rule_syscall_overwrite ==
    /\ pc = "add_rule"
    /\ calls' = calls \cup {"landlock_add_rule"}
    /\ \E ok \in BOOLEAN :
        IF ok
        THEN /\ ruleset' = {fd}
             /\ added' = added \cup {[dir |-> dir, name |-> ent, path |-> fullpath,
                                      resolved |-> resolved, st |-> st, ino |-> fd]}
             /\ UNCHANGED failures
        ELSE /\ failures' = Failed("landlock_add_rule", TRUE)
             /\ UNCHANGED << ruleset, added >>
    /\ pc' = "close"
    /\ UNCHANGED << path_env, ruleset_fd, saveptr, dir, d_open, d_rest, fd,
                    exit_status, stderr, tried, examined >>
    /\ UNCHANGED << locals, kernel, host >>
    /\ UNCHANGED retargeted

\* add_exec_rule: landlock_add_rule(ruleset_fd, LANDLOCK_RULE_PATH_BENEATH, ...)
add_exec_rule_syscall ==
    /\ pc = "add_rule"
    /\ calls' = calls \cup {"landlock_add_rule"}
    /\ \E ok \in BOOLEAN :
        IF ok
        THEN /\ ruleset' = ruleset \cup {fd}
             /\ added' = added \cup {[dir |-> dir, name |-> ent, path |-> fullpath,
                                      resolved |-> resolved, st |-> st, ino |-> fd]}
             /\ UNCHANGED failures
        ELSE /\ failures' = Failed("landlock_add_rule", TRUE)
             /\ UNCHANGED << ruleset, added >>
    /\ pc' = "close"
    /\ UNCHANGED << path_env, ruleset_fd, saveptr, dir, d_open, d_rest, fd,
                    exit_status, stderr, tried, examined >>
    /\ UNCHANGED << locals, kernel, host >>
    /\ UNCHANGED retargeted

\* add_exec_rule: close(fd) and return to the loop, which ignores the result
add_exec_rule_close ==
    /\ pc = "close"
    /\ fd' = "none"
    /\ NextEntry
    /\ UNCHANGED << path_env, ruleset_fd, ruleset, saveptr, dir, d_open, d_rest,
                    exit_status, stderr, calls, failures >>
    /\ UNCHANGED << kernel, host, history >>
    /\ UNCHANGED retargeted

\* Variant: the failure of prctl is reported but the run goes on to the commit.
prctl_no_new_privs_ignored ==
    /\ pc = "prctl"
    /\ calls' = calls \cup {"prctl"}
    /\ \E ok \in BOOLEAN :
        IF ok
        THEN /\ no_new_privs' = TRUE
             /\ pc' = "restrict_self"
             /\ UNCHANGED << ruleset_fd, stderr, failures, exit_status >>
        ELSE /\ stderr' = Append(stderr, "landlock_sandboxer: prctl(NO_NEW_PRIVS)")
             /\ failures' = failures \cup {"prctl"}
             /\ pc' = "restrict_self"
             /\ UNCHANGED << ruleset_fd, exit_status, no_new_privs >>
    /\ UNCHANGED << path_env, ruleset, saveptr, dir, d_open, d_rest, fd,
                    enforcement, allow_list >>
    /\ UNCHANGED << locals, host, history >>
    /\ UNCHANGED retargeted

prctl_no_new_privs ==
    /\ pc = "prctl"
    /\ calls' = calls \cup {"prctl"}
    /\ \E ok \in BOOLEAN :
        IF ok
        THEN /\ no_new_privs' = TRUE
             /\ pc' = "restrict_self"
             /\ UNCHANGED << ruleset_fd, stderr, failures, exit_status >>
        ELSE /\ ruleset_fd' = "closed"
             /\ Abort("landlock_sandboxer: prctl(NO_NEW_PRIVS)", "prctl")
             /\ UNCHANGED no_new_privs
    /\ UNCHANGED << path_env, ruleset, saveptr, dir, d_open, d_rest, fd,
                    enforcement, allow_list >>
    /\ UNCHANGED << locals, host, history >>
    /\ UNCHANGED retargeted

\* Variant: the failure is reported but _exit is missing.
restrict_self_no_exit ==
    /\ pc = "restrict_self"
    /\ calls' = calls \cup {"landlock_restrict_self"}
    /\ \E ok \in BOOLEAN :
        IF ok /\ no_new_privs /\ ruleset_fd = "open"
        THEN /\ enforcement' = "restricted"
             /\ allow_list' = ruleset
             /\ pc' = "close_ruleset"
             /\ UNCHANGED << ruleset_fd, stderr, failures, exit_status >>
        ELSE /\ ruleset_fd' = "closed"
             /\ stderr' = Append(stderr, "landlock_sandboxer: restrict_self")
             /\ failures' = failures \cup {"landlock_restrict_self"}
             /\ pc' = "returned"
             /\ UNCHANGED << enforcement, allow_list, exit_status >>
    /\ UNCHANGED << path_env, no_new_privs, ruleset, saveptr, dir, d_open, d_rest, fd >>
    /\ UNCHANGED << locals, host, history >>
    /\ UNCHANGED retargeted

restrict_self ==
    /\ pc = "restrict_self"
    /\ calls' = calls \cup {"landlock_restrict_self"}
    /\ \E ok \in BOOLEAN :
        IF ok /\ no_new_privs /\ ruleset_fd = "open"
        THEN /\ enforcement' = "restricted"
             /\ allow_list' = ruleset
             /\ pc' = "close_ruleset"
             /\ UNCHANGED << ruleset_fd, stderr, failures, exit_status >>
        ELSE /\ ruleset_fd' = "closed"
             /\ Abort("landlock_sandboxer: restrict_self", "landlock_restrict_self")
             /\ UNCHANGED << enforcement, allow_list >>
    /\ UNCHANGED << path_env, no_new_privs, ruleset, saveptr, dir, d_open, d_rest, fd >>
    /\ UNCHANGED << locals, host, history >>
    /\ UNCHANGED retargeted

\* close(ruleset_fd); the constructor returns and bash main() proceeds
close_ruleset_return ==
    /\ pc = "close_ruleset"
    /\ ruleset_fd' = "closed"
    /\ pc' = "returned"
    /\ UNCHANGED << path_env, ruleset, saveptr, dir, d_open, d_rest, fd, exit_status,
                    stderr, calls, failures >>
    /\ UNCHANGED << locals, kernel, host, history >>
    /\ UNCHANGED retargeted

\* The paths the host is asked to execute once the constructor has returned.
ExecProbes ==
    { <<"/bin", "bash">>, <<"/usr/bin", "bash">>, <<"/bin", "sh">>, <<"/bin", "ksh">>,
      <<"/usr/bin", "ksh">>, <<"/bin", "zsh">>, <<"/tmp/bin", "tool">>,
      <<"/tmp/bin", "myshell">>, <<"/tmp/hl", "mysh">>, <<"/usr/bin", "env">> }

\* execve(path) in the host: the kernel refuses a file the committed ruleset
\* does not allow (every execute access is handled by the ruleset).
execve(dname, name) ==
    LET w == PathWalk(dname, name)
    IN  IF ~w.ok THEN "ENOENT"
        ELSE IF enforcement = "restricted" /\ w.ino \notin allow_list THEN "EACCES"
        ELSE "ok"

bash_exec ==
    /\ pc = "returned"
    /\ \E p \in ExecProbes :
        last_exec' = [path |-> p[1] \o "/" \o p[2], result |-> execve(p[1], p[2])]
    /\ UNCHANGED << pc, path_env, ruleset_fd, ruleset, saveptr, dir, d_open, d_rest, fd,
                    exit_status, stderr, calls, failures, call >>
    /\ UNCHANGED << locals, kernel, history >>
    /\ UNCHANGED retargeted

Next ==
    \/ create_ruleset
    \/ getenv_PATH
    \/ strdup_path
    \/ strtok_r_next
    \/ opendir_dir
    \/ readdir_next
    \/ stat_fullpath
    \/ realpath_fullpath
    \/ is_denied_check
    \/ add_exec_rule_open
    \/ add_exec_rule_syscall
    \/ add_exec_rule_close
    \/ prctl_no_new_privs
    \/ restrict_self
    \/ close_ruleset_return
    \/ bash_exec

Spec == Init /\ [][Next]_vars

(* ------------------------- is_denied on its own ------------------------ *)

NearMisses ==
    {"", "bash", "/bin/BASH", "/bin/bas", "/bin/bash2", "/bin/bash/", "/bin//bash",
     "/usr/local/bin/bash", "/tmp/bin/tool", "/usr/bin/env"}

DeniedInputs == DenialSet \cup NearMisses

InitDenied ==
    /\ pc = "is_denied_only"
    /\ path_env = Unset
    /\ no_new_privs = FALSE
    /\ call \in {[path |-> p, resolved |-> r, ret |-> -1] : p \in DeniedInputs, r \in DeniedInputs}
    /\ Fresh

call_is_denied ==
    /\ pc = "is_denied_only"
    /\ call.ret = -1
    /\ call' = [call EXCEPT !.ret = is_denied(call.path, call.resolved)]
    /\ UNCHANGED << pc, path_env, ruleset_fd, ruleset, saveptr, dir, d_open, d_rest, fd,
                    exit_status, stderr, last_exec, calls, failures >>
    /\ UNCHANGED << locals, kernel, history >>
    /\ UNCHANGED retargeted

NextDenied == call_is_denied

SpecDenied == InitDenied /\ [][NextDenied]_vars

(* -------------------------------- claims ------------------------------- *)

ShellDirs == {"/bin", "/usr/bin"}

ShellNames ==
    {"bash", "sh", "dash", "zsh", "fish", "ksh", "csh", "tcsh", "ash", "busybox",
     "mksh", "rbash", "elvish", "nu", "pwsh", "xonsh"}

\* The Denial Set as (directory, name) pairs, the form the path walk takes.
DeniedPairs ==
    { p \in ShellDirs \X ShellNames : (p[1] \o "/" \o p[2]) \in DenialSet }

PathTokens == { Tokens(path_env.s)[i] : i \in DOMAIN Tokens(path_env.s) }

FatalInSpec == {"PATH", "landlock_create_ruleset", "prctl", "landlock_restrict_self"}

PerItem == {"opendir", "snprintf", "stat", "realpath", "open", "landlock_add_rule"}

Enumerating ==
    {"strtok_r", "opendir", "readdir", "stat", "realpath", "is_denied", "open",
     "add_rule", "close"}

AfterEnumeration == {"prctl", "restrict_self", "close_ruleset", "returned"}

\* C1: once the ruleset is committed, no path of the Denial Set that names an
\* existing file names a file of the allow-list, whatever the layout of the
\* search-path directories, and executing such a path is refused.
C1_DeniedShellsRefused ==
    enforcement = "restricted" =>
        /\ { p[1] \o "/" \o p[2] : p \in DeniedPairs } = DenialSet
        /\ \A p \in DeniedPairs :
              PathWalk(p[1], p[2]).ok =>
                  /\ PathWalk(p[1], p[2]).ino \notin allow_list
                  /\ execve(p[1], p[2]) = "EACCES"

\* C2: every entry of the ruleset was added for an entry of a directory named
\* in PATH that is a regular file with an execute bit and of which neither the
\* literal path nor the canonical path is in the Denial Set; a symbolic link
\* whose canonical path is in the Denial Set never gets a rule.
C2_RulesOnlyForCheckedCandidates ==
    /\ ruleset = { r.ino : r \in added }
    /\ \A r \in added :
          LET w == PathWalk(r.dir, r.name)
          IN  /\ r.dir \in PathTokens
              /\ r.name \in Dirents(DirCanon(r.dir))
              /\ r.path = r.dir \o "/" \o r.name
              /\ w.ok
              /\ r.ino = w.ino
              /\ Inode(w.ino).reg
              /\ Inode(w.ino).xbits \cap S_IXANY # {}
              /\ r.st = Inode(w.ino)
              /\ r.path \notin DenialSet
              /\ w.path \notin DenialSet
    /\ \A e \in examined :
          (/\ Node(DirCanon(e.dir), e.name).kind = "symlink"
           /\ PathWalk(e.dir, e.name).ok
           /\ PathWalk(e.dir, e.name).path \in DenialSet)
          => \A r \in added : ~(r.dir = e.dir /\ r.name = e.name)

\* C2 witness: a run that examined the symbolic link /tmp/bin/myshell, which
\* leads to bash, and added the rule of /tmp/bin/tool.
C2_Witness ==
    /\ pc = "returned"
    /\ [dir |-> "/tmp/bin", name |-> "myshell"] \in examined
    /\ \E r \in added : r.path = "/tmp/bin/tool"
    /\ "realpath" \notin failures

\* C3: is_denied returns 1 exactly when the literal or the resolved path is
\* equal, as a string, to an entry of the Denial Set, and 0 otherwise.
C3_IsDeniedIffMember ==
    call.ret # -1 =>
        /\ call.ret \in {0, 1}
        /\ call.ret = 1 <=> (call.path \in DenialSet \/ call.resolved \in DenialSet)

\* C3 witness: a call that differs from an entry only by case and by a
\* missing last character, answered 0.
C3_Witness ==
    /\ call.path = "/bin/BASH"
    /\ call.resolved = "/bin/bas"
    /\ call.ret = 0

\* C4: the constructor returns to the host, and the host evaluates a command,
\* only with the ruleset created, NO_NEW_PRIVS set and the ruleset committed;
\* a run that aborted never evaluates a command and none runs unrestricted.
C4_ReturnsOnlyRestricted ==
    /\ pc = "returned" =>
          /\ enforcement = "restricted"
          /\ no_new_privs
          /\ {"landlock_create_ruleset", "prctl", "landlock_restrict_self"} \subseteq calls
          /\ failures \cap {"landlock_create_ruleset", "prctl", "landlock_restrict_self"} = {}
          /\ allow_list = ruleset
          /\ exit_status = -1
    /\ last_exec # NoExec => (pc = "returned" /\ enforcement = "restricted")
    /\ pc = "exited" => (last_exec = NoExec /\ exit_status # -1)

\* C4 witness: the host, restricted, was refused a command.
C4_Witness ==
    /\ pc = "returned"
    /\ last_exec.result = "EACCES"

\* C5: when the creation of the ruleset fails the process exits with 126 and
\* nothing else was done: no directory opened, no candidate examined, no rule
\* added.
C5_CreateFailureDoesNothing ==
    "landlock_create_ruleset" \in failures =>
        /\ pc = "exited"
        /\ exit_status = EXIT_FAILSAFE
        /\ calls = {"landlock_create_ruleset"}
        /\ tried = {} /\ examined = {} /\ added = {} /\ ruleset = {}
        /\ ~d_open /\ fd = "none"

\* C5 witness: a run whose ruleset creation failed, with a PATH that names
\* directories.
C5_Witness ==
    /\ "landlock_create_ruleset" \in failures
    /\ ~path_is_empty(path_env)
    /\ pc = "exited"

\* C6: with PATH unset or empty the run never goes past the test of PATH: it
\* exits with 126, having opened no directory, added no rule and attempted
\* neither the privilege lock nor the commit.
C6_EmptyPathAborts ==
    (path_env.null \/ path_env.s = <<>>) =>
        /\ pc \in {"create_ruleset", "getenv", "exited"}
        /\ pc = "exited" => exit_status = EXIT_FAILSAFE
        /\ calls \subseteq {"landlock_create_ruleset", "getenv"}
        /\ tried = {} /\ examined = {} /\ added = {} /\ ruleset = {}
        /\ enforcement = "unrestricted"

\* C6 witness: the run with PATH set to the empty string, aborted at the test.
C6_Witness ==
    /\ ~path_env.null
    /\ path_env.s = <<>>
    /\ pc = "exited"
    /\ "PATH" \in failures

\* C7: a failure of one directory or one candidate never aborts: no step of
\* the enumeration exits, and when the enumeration is over every directory of
\* PATH was given to opendir and every directory that was opened had all its
\* entries examined; a run whose commit succeeds is Restricted.
C7_PerItemFailuresAreSkipped ==
    /\ [][(pc \in Enumerating) => (pc' \in Enumerating \cup {"prctl"})]_vars
    /\ [](pc \in AfterEnumeration =>
            /\ tried = PathTokens
            /\ \A t \in tried :
                  LET seen == { e.name : e \in { x \in examined : x.dir = t } }
                  IN  \/ seen = Dirents(DirCanon(t))
                      \/ seen = {} /\ "opendir" \in failures)
    /\ []("landlock_restrict_self" \in calls /\ "landlock_restrict_self" \notin failures
            => enforcement = "restricted" /\ pc \in {"close_ruleset", "returned"})

\* C7 witness: a run that met a directory it could not open, a stat failure
\* and a realpath failure, and still added a rule and reached Restricted.
C7_Witness ==
    /\ pc = "returned"
    /\ {"opendir", "stat", "realpath"} \subseteq failures
    /\ ruleset # {}

\* C8 as stated: the process aborts only for an absent or empty search path,
\* a ruleset creation failure, a privilege-lock failure or a commit failure.
C8_AbortOnlyForSpecFatal ==
    pc = "exited" => failures \cap FatalInSpec # {}

\* C8 amended: the process aborts only for one of those four conditions or
\* for the failure of strdup to copy the search path.
C8_AbortOnlyForFatal ==
    pc = "exited" =>
        /\ Cardinality(failures \cap (FatalInSpec \cup {"strdup"})) = 1
        /\ exit_status = EXIT_FAILSAFE

\* C8 witness: a run aborted because strdup failed.
C8_Witness ==
    /\ pc = "exited"
    /\ "strdup" \in failures

\* C9: every run that ends in Aborted wrote one diagnostic line to the error
\* stream before it terminated.
C9_AbortWritesDiagnostic ==
    pc = "exited" => Len(stderr) = 1

\* C10: every run that ends in Aborted exits with status 126, whatever the
\* fatal condition; the status is set by no other path.
C10_AbortStatusIs126 ==
    /\ pc = "exited" => exit_status = EXIT_FAILSAFE
    /\ pc # "exited" => exit_status = -1
    /\ exit_status # 0

\* C10 witness: a run aborted by the failure of prctl, after rules were added.
C10_Witness ==
    /\ pc = "exited"
    /\ "prctl" \in failures
    /\ ruleset # {}

\* C11: the commit is attempted only after prctl(NO_NEW_PRIVS) succeeded in
\* this run; when prctl fails the commit is never attempted and the process
\* aborts, and when the commit fails the process aborts.
C11_CommitOnlyAfterLock ==
    /\ (pc = "restrict_self" \/ "landlock_restrict_self" \in calls) =>
          /\ "prctl" \in calls
          /\ "prctl" \notin failures
          /\ no_new_privs
    /\ "prctl" \in failures =>
          /\ pc = "exited"
          /\ "landlock_restrict_self" \notin calls
          /\ enforcement = "unrestricted"
    /\ "landlock_restrict_self" \in failures =>
          /\ pc = "exited"
          /\ enforcement = "unrestricted"

\* C11 witness: a run whose commit failed, after rules were added and the
\* privilege lock was set, and which aborted.
C11_Witness ==
    /\ "landlock_restrict_self" \in failures
    /\ no_new_privs
    /\ added # {}
    /\ pc = "exited"

\* The states of the pipeline, in order, and the state a position belongs to.
Stages ==
    << "Start", "RulesetOpen", "Enumerating", "RulesAdded", "Locked", "Restricted",
       "Aborted" >>

StageOf(p) ==
    CASE p = "create_ruleset"               -> "Start"
      [] p \in {"getenv", "strdup"}         -> "RulesetOpen"
      [] p \in Enumerating                  -> "Enumerating"
      [] p = "prctl"                        -> "RulesAdded"
      [] p = "restrict_self"                -> "Locked"
      [] p \in {"close_ruleset", "returned"} -> "Restricted"
      [] p = "exited"                       -> "Aborted"

Rank(stage) == CHOOSE i \in DOMAIN Stages : Stages[i] = stage

\* C12: every step stays in its state, moves to the next one of Start,
\* RulesetOpen, Enumerating, RulesAdded, Locked, Restricted, or moves from a
\* non-terminal state to Aborted; Restricted and Aborted are never left, and
\* the process becomes restricted at most once, at the commit.
C12_ForwardOnly ==
    [][ /\ \/ Rank(StageOf(pc')) = Rank(StageOf(pc))
           \/ Rank(StageOf(pc')) = Rank(StageOf(pc)) + 1
           \/ StageOf(pc') = "Aborted"
        /\ StageOf(pc) \in {"Restricted", "Aborted"} => StageOf(pc') = StageOf(pc)
        /\ StageOf(pc') = "Restricted" <=> enforcement' = "restricted"
        /\ enforcement = "restricted" => enforcement' = "restricted"
        /\ enforcement' # enforcement =>
              (pc = "restrict_self" /\ "landlock_restrict_self" \notin calls)
      ]_vars

\* C12 witness: a run that went through every state to Restricted and whose
\* host then executed an allowed file.
C12_Witness ==
    /\ pc = "returned"
    /\ added # {}
    /\ last_exec.result = "ok"

(* ------------------------------- fairness ------------------------------ *)

\* apply_sandbox runs to completion on the only thread of the process, and
\* every call it makes returns: a step that can be taken is taken.
FairSpec == Spec /\ WF_vars(Next)

\* The calls of each non-terminal state that can fail.
NonTerminal == {"Start", "RulesetOpen", "Enumerating", "RulesAdded", "Locked"}

CallsOf(stage) ==
    CASE stage = "Start"       -> {"landlock_create_ruleset"}
      [] stage = "RulesetOpen" -> {"PATH", "strdup"}
      [] stage = "Enumerating" -> PerItem
      [] stage = "RulesAdded"  -> {"prctl"}
      [] stage = "Locked"      -> {"landlock_restrict_self"}

\* C13 as stated: each of Start, RulesetOpen, Enumerating, RulesAdded and
\* Locked has a call whose failure takes the run directly to Aborted, so that
\* no run goes on after a failure of every call of one state.
C13_AbortFromEveryState ==
    pc # "exited" =>
        \A stage \in NonTerminal : \E c \in CallsOf(stage) : c \notin failures

\* C13 amended: a failure takes the run directly to Aborted from Start (the
\* ruleset creation), RulesetOpen (the empty PATH, strdup), RulesAdded (prctl)
\* and Locked (the commit); no step leads from Enumerating to Aborted, whose
\* failures all leave the run in Enumerating.
C13_AbortFromAllButEnumerating ==
    /\ [](pc = "create_ruleset" => ENABLED (create_ruleset /\ pc' = "exited"))
    /\ []((pc = "getenv" /\ path_is_empty(path_env)) => ENABLED (getenv_PATH /\ pc' = "exited"))
    /\ [](pc = "strdup" => ENABLED (strdup_path /\ pc' = "exited"))
    /\ [](pc = "prctl" => ENABLED (prctl_no_new_privs /\ pc' = "exited"))
    /\ [](pc = "restrict_self" => ENABLED (restrict_self /\ pc' = "exited"))
    /\ [][StageOf(pc) = "Enumerating" => StageOf(pc') # "Aborted"]_vars
    /\ [](pc # "exited" =>
            \A stage \in NonTerminal \ {"Enumerating"} :
                \A c \in CallsOf(stage) : c \notin failures)

\* C13 witness: a run in RulesAdded that went on after a failure of every call
\* of the enumeration and that a failure of prctl can still abort.
C13_Witness ==
    /\ pc = "prctl"
    /\ PerItem \subseteq failures
    /\ ENABLED (prctl_no_new_privs /\ pc' = "exited")

(* ------------------------------- handles ------------------------------- *)

\* C14: in Restricted and in Aborted the ruleset handle is closed if it was
\* opened, no directory stream and no candidate handle is open; a directory is
\* opened only while none is open, a candidate only while none is open, and
\* the candidate handle is closed by the step that follows landlock_add_rule,
\* whatever its result.
C14_HandlesReleased ==
    /\ [](pc \in {"returned", "exited"} =>
            /\ ruleset_fd # "open"
            /\ (ruleset_fd = "unopened" => failures = {"landlock_create_ruleset"})
            /\ ~d_open
            /\ fd = "none")
    /\ [](d_open => pc \in Enumerating \ {"strtok_r", "opendir"})
    /\ [](fd # "none" => pc \in {"add_rule", "close"} /\ d_open)
    /\ [][ /\ (d_open' /\ pc = "opendir") => ~d_open
           /\ (fd' # "none" /\ pc = "open") => fd = "none"
           /\ pc = "close" => fd' = "none"
           /\ (ruleset_fd' = "open" /\ ruleset_fd # "open") => ruleset_fd = "unopened"
       ]_vars

\* C14 witness: a run that opened two directories and a candidate of the
\* second, failed at prctl and ended with every handle closed.
C14_Witness ==
    /\ pc = "exited"
    /\ "prctl" \in failures
    /\ Cardinality({ t \in tried : DirCanon(t) # NoDir }) >= 2
    /\ added # {}
    /\ ruleset_fd = "closed" /\ ~d_open /\ fd = "none"

(* ----------------------------- termination ----------------------------- *)

\* C15: every run of apply_sandbox reaches Restricted or Aborted: it does not
\* stay forever in Start, RulesetOpen, Enumerating, RulesAdded or Locked.
C15_Terminates == <>(StageOf(pc) \in {"Restricted", "Aborted"})

\* C15 witness: a run that tried two directories, one of them twice or a
\* missing one, met failures in the enumeration and reached Restricted.
C15_Witness ==
    /\ pc = "returned"
    /\ Cardinality(tried) >= 2
    /\ {"opendir", "stat"} \subseteq failures
    /\ enforcement = "restricted"

(* ------------------- the enumeration as a pure function ----------------- *)

\* The body of the readdir loop for entry `name` of PATH directory `d` when no
\* call fails for a reason other than the file system: whether a rule is added.
Candidate(d, name) ==
    LET w == PathWalk(d, name)
    IN  /\ Len(d) + 1 + Len(name) < PATH_MAX
        /\ w.ok
        /\ Inode(w.ino).reg
        /\ Inode(w.ino).xbits \cap S_IXANY # {}
        /\ Len(w.path) < PATH_MAX
        /\ is_denied(d \o "/" \o name, w.path) = 0

\* The rules one PATH directory adds.
RulesOfDir(d) ==
    IF DirCanon(d) = NoDir THEN {}
    ELSE { PathWalk(d, name).ino :
             name \in { n \in Dirents(DirCanon(d)) : Candidate(d, n) } }

\* The ruleset the strtok_r loop builds from `acc` over the directories `ds`.
RECURSIVE RulesFrom(_, _)
RulesFrom(acc, ds) ==
    IF ds = <<>> THEN acc
    ELSE RulesFrom(acc \cup RulesOfDir(Head(ds)), Tail(ds))

RulesOf(ds) == RulesFrom({}, ds)

\* ds without the repetitions of a directory.
RECURSIVE Dedup(_, _)
Dedup(seen, ds) ==
    IF ds = <<>> THEN <<>>
    ELSE IF Head(ds) \in seen THEN Dedup(seen, Tail(ds))
    ELSE <<Head(ds)>> \o Dedup(seen \cup {Head(ds)}, Tail(ds))

\* The orders in which the directories ds can be listed.
Orders(ds) ==
    { [i \in 1..Len(ds) |-> ds[f[i]]] :
        f \in { g \in [1..Len(ds) -> 1..Len(ds)] :
                  \A i, j \in 1..Len(ds) : i # j => g[i] # g[j] } }

\* The enumeration is over and every failure it met is one the file system
\* explains.
EnumeratedAll == pc \in AfterEnumeration /\ "transient" \notin failures

\* C16: adding a rule the ruleset already holds leaves the ruleset as it is
\* and goes on to close, never to Aborted; the ruleset holds one entry for
\* each file a rule was added for, however many times; and after the
\* enumeration the ruleset, and the allow-list once committed, is the one of
\* the PATH with every directory listed once.
C16_DuplicatesAreIdempotent ==
    /\ [][(pc = "add_rule" /\ fd \in ruleset) =>
            (ruleset' = ruleset /\ pc' = "close")]_vars
    /\ [](ruleset = { r.ino : r \in added })
    /\ [](EnumeratedAll => ruleset = RulesOf(Dedup({}, Tokens(path_env.s))))
    /\ []((EnumeratedAll /\ enforcement = "restricted") =>
            allow_list = RulesOf(Dedup({}, Tokens(path_env.s))))

\* C16 witness: PATH lists one directory twice, no call failed, the rule of
\* its candidate was added twice and the run reached Restricted.
C16_Witness ==
    /\ pc = "returned"
    /\ failures = {}
    /\ Len(Tokens(path_env.s)) = 2
    /\ Tokens(path_env.s)[1] = Tokens(path_env.s)[2]
    /\ allow_list # {}

(* ------------------------- growth of the ruleset ----------------------- *)

\* C17: no step removes an entry of the ruleset; a step adds one only in
\* Enumerating, with the ruleset created and neither prctl nor the commit yet
\* called; once the ruleset is committed neither it nor the allow-list
\* changes, and the allow-list is the ruleset accumulated by the enumeration.
C17_RulesetOnlyGrows ==
    /\ [][ /\ ruleset \subseteq ruleset'
           /\ ruleset' # ruleset =>
                 /\ StageOf(pc) = "Enumerating"
                 /\ ruleset_fd = "open"
                 /\ {"prctl", "landlock_restrict_self"} \cap calls = {}
           /\ StageOf(pc) \notin {"Start", "RulesetOpen", "Enumerating"} =>
                 ruleset' = ruleset
           /\ enforcement = "restricted" =>
                 (allow_list' = allow_list /\ ruleset' = ruleset)
           /\ allow_list' # allow_list =>
                 (pc = "restrict_self" /\ allow_list' = ruleset)
       ]_vars
    /\ [](ruleset_fd = "unopened" => ruleset = {})
    /\ [](enforcement = "restricted" => allow_list = ruleset)
    /\ [](enforcement # "restricted" => allow_list = {})

\* C17 witness: a committed allow-list of two entries, accumulated one by one
\* by the enumeration, after the host executed one of its files.
C17_Witness ==
    /\ enforcement = "restricted"
    /\ Cardinality(allow_list) >= 2
    /\ allow_list = { r.ino : r \in added }
    /\ last_exec.result = "ok"
    /\ pc = "returned"

(* -------------------------- order of enumeration ----------------------- *)

\* C18: whatever the order in which readdir yielded the entries, the ruleset
\* after the enumeration, and the allow-list once committed, is the one the
\* directories of PATH give in each of the orders they can be listed in; the
\* enumeration ends in RulesAdded in every order.
C18_OrderIndependent ==
    /\ [](EnumeratedAll =>
            \A ds \in Orders(Tokens(path_env.s)) :
                /\ ruleset = RulesOf(ds)
                /\ enforcement = "restricted" => allow_list = RulesOf(ds))
    /\ [][(StageOf(pc) = "Enumerating" /\ StageOf(pc') # "Enumerating") =>
            (pc = "strtok_r" /\ pc' = "prctl" /\ d_rest = {}
             /\ strtok_r(saveptr).null)]_vars

\* C18 witness: two different directories of PATH each gave an entry of the
\* committed allow-list, and the second of them alone gives another ruleset
\* than the first.
C18_Witness ==
    /\ pc = "returned"
    /\ failures = {}
    /\ Len(Tokens(path_env.s)) = 2
    /\ RulesOfDir(Tokens(path_env.s)[1]) # {}
    /\ RulesOfDir(Tokens(path_env.s)[2]) # {}
    /\ RulesOfDir(Tokens(path_env.s)[1]) # RulesOfDir(Tokens(path_env.s)[2])
    /\ allow_list = RulesOfDir(Tokens(path_env.s)[1]) \cup RulesOfDir(Tokens(path_env.s)[2])

(* ------------------ a concurrent change of the directory --------------- *)

\* Another process replaces /tmp/bin/tool by a symbolic link to /bin/bash
\* while apply_sandbox enumerates: nothing orders this step with the calls
\* of lines 124-135 and 73.
other_process_retarget ==
    /\ StageOf(pc) = "Enumerating"
    /\ ~retargeted
    /\ retargeted' = TRUE
    /\ UNCHANGED << pc, path_env, no_new_privs, ruleset_fd, ruleset, saveptr, dir,
                    d_open, d_rest, ent, fullpath, st, resolved, fd, enforcement,
                    allow_list, exit_status, stderr, last_exec, calls, failures,
                    tried, examined, added, call >>

NextRace == Next \/ other_process_retarget

SpecRace == Init /\ [][NextRace]_vars

\* C19: every entry of the ruleset was registered for the file that stat
\* described in that step of the enumeration, a regular file with an execute
\* bit whose literal and canonical path, as checked, are outside the Denial
\* Set, also when another process changes the directory meanwhile.
C19_RegisteredFileIsCheckedFile ==
    \A r \in added :
        /\ r.ino = r.st.ino
        /\ r.st.reg
        /\ r.st.xbits \cap S_IXANY # {}
        /\ r.path \notin DenialSet
        /\ r.resolved \notin DenialSet
        /\ r.ino \in ruleset

====
